---- MODULE Spec2Model ----
(***************************************************************************)
(* Model of the concurrent execution core of perfkitbenchmarker/vm_util.py *)
(* (Python 2): RunThreaded, RunParallelThreads with _ExecuteThreadCall,    *)
(* and RunParallelProcesses with _ExecuteProcCall.                         *)
(*                                                                         *)
(* Call ids are 0-based as in the source.  Python's None is the empty      *)
(* tuple <<>>; an int k that may also be None is the 1-tuple <<k>>.        *)
(* A KeyboardInterrupt is raised in the controller of RunParallelProcesses *)
(* only while it is inside the try block of lines 450-526; worker          *)
(* processes may end at any time without publishing their call_id.         *)
(***************************************************************************)
EXTENDS Integers, Sequences, FiniteSets, TLC

\* ------------------------------------------------------------------ bounds
\* Largest batch handed to RunParallelThreads.
MaxCalls == 3
\* Largest batch handed to RunParallelProcesses.
MaxProcCalls == 2
\* Largest thread_params list handed to RunThreaded.
MaxParams == 2
\* Largest poll_interval, max_retries and timeout given to Retry, in seconds.
MaxPoll == 2
MaxRetries == 2
MaxTimeout == 5
\* fuzz is tried in steps of 1 / FuzzSteps, from 0 to 1.
FuzzSteps == 2
\* Longest time one call of the wrapped function takes, in seconds.
MaxDuration == 1
\* Calls of the wrapped function after which a run is followed no further.
MaxTries == 6

\* ------------------------------------------------------- module defaults
\* Lines 61-64: the defaults for retrying commands.
POLL_INTERVAL == 30
TIMEOUT == 1200
MAX_RETRIES == 0 - 1

VARIABLES
  entry,               \* the public function the caller invoked
  thread_params,       \* RunThreaded's argument: [is_list, items]
  target_arg_tuples,   \* [0..N-1 -> envelope]
  max_concurrency,     \* None, or <<int>>
  suppress_exceptions, \* RunParallelProcesses' flag
  pc,                  \* position of the controller (the calling thread)
  call_id,             \* the controller's local call_id
  next_call_id,
  active_thread_count,
  results,             \* RunParallelThreads' results list
  error_strings,       \* call ids whose message was appended, in order
  queue,               \* Queue.Queue / multiprocessing.Queue contents
  thread_state,        \* [0..N-1 -> state of the worker thread]
  active_processes,    \* OrderedDict: call ids in insertion order
  call_results,        \* [0..N-1 -> manager.Namespace slot or None]
  received_interrupt,  \* None, or <<ordinal of the interrupt it holds>>
  e,                   \* the local e: unbound (<<>>), or <<ordinal>>
  proc_state,          \* [0..N-1 -> state of the worker process]
  killed,              \* call ids whose process was sent SIGKILL
  logged,              \* [0..N-1 -> times the per-call path logged its failure]
  interrupts,          \* KeyboardInterrupts raised in the controller so far
  raised,              \* exception leaving the public function, "" if none
  returned,            \* the value returned (meaningful once pc = "done")
  poll_interval,       \* Retry's arguments: seconds between attempts,
  max_retries,         \*   retries allowed (negative: no limit),
  timeout,             \*   None or <<seconds>> (negative: no deadline),
  fuzz,                \*   randomness of the sleep, in FuzzSteps-ths
  default_timeout,     \* FLAGS.default_timeout
  now,                 \* time.time(), in seconds since the call began
  deadline,            \* <<time>>, or None for float('inf')
  tries,
  sleeps,              \* calls of time.sleep made so far
  attempts             \* outcome of each call of f so far, in order

inputVars == <<entry, thread_params, suppress_exceptions>>
threadVars == <<active_thread_count, results, thread_state>>
procVars == <<active_processes, call_results, received_interrupt, e,
              proc_state, killed, logged, interrupts>>
retryVars == <<poll_interval, max_retries, timeout, fuzz, default_timeout,
               now, deadline, tries, sleeps, attempts>>
poolVars == <<thread_params, target_arg_tuples, max_concurrency,
              suppress_exceptions, call_id, next_call_id,
              active_thread_count, results, error_strings, queue,
              thread_state, active_processes, call_results,
              received_interrupt, proc_state, killed, logged, interrupts>>
vars == <<entry, thread_params, target_arg_tuples, max_concurrency,
          suppress_exceptions, pc, call_id, next_call_id,
          active_thread_count, results, error_strings, queue, thread_state,
          active_processes, call_results, received_interrupt, e, proc_state,
          killed, logged, interrupts, raised, returned, poll_interval,
          max_retries, timeout, fuzz, default_timeout, now, deadline, tries,
          sleeps, attempts>>

\* ------------------------------------------------------- Python 2 values
None == <<>>

\* min(a, n) for a in {None} \cup int and n an int: None orders below every
\* int in Python 2.
PyMin(a, n) == IF a = None THEN None ELSE IF a[1] < n THEN a ELSE <<n>>

\* k < a for an int k: False when a is None (None is the smallest value).
PyLess(k, a) == IF a = None THEN FALSE ELSE k < a[1]

\* len(target_arg_tuples)
NumCalls == Cardinality(DOMAIN target_arg_tuples)

CallIds == DOMAIN target_arg_tuples

\* [x] * n
ListOf(x, n) == [i \in 0..(n - 1) |-> x]

\* ---------------------------------------------------------- the batch
\* Shapes of an element of thread_params: a bare (non-tuple) value, a
\* (tuple, dict) pair, a 2-tuple that is not (tuple, dict), a 3-tuple, the
\* empty tuple.
Shapes == {"bare", "pair", "badpair", "tuple3", "tuple0"}

\* An envelope (target, args, kwargs).  mode tells how the param it was built
\* from reaches the target: "direct" (the caller built the tuple itself),
\* "positional" ((arg,), {}) or "unpacked" (args, kwargs taken from the param).
Envelope(mode, i, shape) == [mode |-> mode, param |-> i, shape |-> shape]

\* What target(*args, **kwargs) returns for an envelope: the target echoes the
\* arguments it was called with.
ReturnValue(env) == <<env.mode, env.param>>

\* traceback.format_exc() for a call that raised.
Traceback(i) == <<"Traceback", i>>

\* Whether the call can only raise: unpacking a 2-tuple that is not
\* (tuple, dict) with * and ** is a TypeError inside the worker.
MustRaise(env) == env.mode = "unpacked" /\ env.shape = "badpair"

\* A batch given directly to RunParallelThreads / RunParallelProcesses.
DirectBatch(n) == [i \in 0..(n - 1) |-> Envelope("direct", i, "pair")]

\* The max_concurrency arguments tried: None, -1, 0 and up to one more than
\* the batch can hold.
McValues(n) == {None} \cup {<<k>> : k \in (0 - 1)..(n + 1)}

ParamLists == UNION {[1..n -> Shapes] : n \in 0..MaxParams}

\* ------------------------------------------------------------ RunThreaded
\* The first element of items (1-based) that "for args, kwargs in" cannot
\* unpack: a bare value is not iterable, a 3-tuple has too many values, the
\* empty tuple too few.
FirstUnpackable(items) ==
  LET bad == {k \in 1..Len(items) : items[k] \in {"bare", "tuple3", "tuple0"}}
  IN IF bad = {} THEN 0 ELSE CHOOSE k \in bad : \A j \in bad : k <= j

\* RunThreaded up to its last line: [exc, empty, tuples].  exc is the exception
\* raised ("" for none), empty tells the early return of [], tuples is the
\* target_arg_tuples list handed to RunParallelThreads.  thread_params[0][0]
\* (line 346) is an IndexError on the empty tuple.
Normalize(tp) ==
  LET items == tp.items
      n == Len(items)
      fail(x) == [exc |-> x, empty |-> FALSE, tuples |-> DirectBatch(0)]
  IN IF ~tp.is_list THEN fail("ValueError")
     ELSE IF n = 0
       THEN [exc |-> "", empty |-> TRUE, tuples |-> DirectBatch(0)]
     ELSE IF items[1] = "bare"
       THEN [exc |-> "", empty |-> FALSE,
             tuples |-> [i \in 0..(n - 1) |->
                           Envelope("positional", i, items[i + 1])]]
     ELSE IF items[1] = "tuple0" THEN fail("IndexError")
     ELSE IF items[1] # "pair" THEN fail("ValueError")
     ELSE IF FirstUnpackable(items) # 0
       THEN IF items[FirstUnpackable(items)] = "bare"
              THEN fail("TypeError") ELSE fail("ValueError")
     ELSE [exc |-> "", empty |-> FALSE,
           tuples |-> [i \in 0..(n - 1) |->
                         Envelope("unpacked", i, items[i + 1])]]

RunThreaded ==
  /\ pc = "RunThreaded"
  /\ LET r == Normalize(thread_params)
     IN IF r.exc # ""
          THEN /\ pc' = "done"
               /\ raised' = r.exc
               /\ UNCHANGED target_arg_tuples
        ELSE IF r.empty
          THEN /\ pc' = "done"
               /\ UNCHANGED <<raised, target_arg_tuples>>
        ELSE /\ pc' = "RunParallelThreads"
             /\ target_arg_tuples' = r.tuples
             /\ UNCHANGED raised
  /\ UNCHANGED <<inputVars, retryVars, threadVars, procVars, max_concurrency, call_id,
                 next_call_id, error_strings, queue, returned>>

\* ----------------------------------------------------- RunParallelThreads
\* Lines 256-262: the locals are set up; xrange(None) is a TypeError.
ThreadsStart ==
  /\ pc = "RunParallelThreads"
  /\ max_concurrency' = PyMin(max_concurrency, NumCalls)
  /\ results' = ListOf(None, NumCalls)
  /\ error_strings' = <<>>
  /\ thread_state' = ListOf("unstarted", NumCalls)
  /\ IF max_concurrency' = None
       THEN pc' = "done" /\ raised' = "TypeError"
       ELSE pc' = "launch_threads" /\ UNCHANGED raised
  /\ call_id' = 0
  /\ UNCHANGED <<inputVars, retryVars, procVars, target_arg_tuples, next_call_id,
                 active_thread_count, queue, returned>>

\* The bound of "for call_id in xrange(max_concurrency)" (line 262).
InitialLaunchAll == NumCalls
InitialLaunchCount == max_concurrency[1]

\* thread.start() on a thread bound to call i.
StartThread(i) == thread_state' = [thread_state EXCEPT ![i] = "running"]

\* Lines 262-270: one iteration of "for call_id in xrange(max_concurrency)",
\* or the two assignments that follow the loop.
ThreadsLaunch ==
  /\ pc = "launch_threads"
  /\ IF call_id < InitialLaunchCount
       THEN /\ StartThread(call_id)
            /\ call_id' = call_id + 1
            /\ UNCHANGED <<pc, active_thread_count, next_call_id>>
       ELSE /\ active_thread_count' = max_concurrency[1]
            /\ next_call_id' = max_concurrency[1]
            /\ pc' = "wait_threads"
            /\ UNCHANGED <<thread_state, call_id>>
  /\ UNCHANGED <<inputVars, retryVars, procVars, target_arg_tuples, max_concurrency,
                 results, error_strings, queue, raised, returned>>

\* _ExecuteThreadCall in the thread of call i: the target returns or raises,
\* and either way one ThreadCallResult is put on the queue.
ExecuteThreadCall(i) ==
  /\ entry # "RunParallelProcesses"
  /\ pc # "done"
  /\ i \in DOMAIN thread_state
  /\ thread_state[i] = "running"
  /\ \E ok \in BOOLEAN :
       /\ ok => ~MustRaise(target_arg_tuples[i])
       /\ thread_state' = [thread_state EXCEPT
                             ![i] = IF ok THEN "returned" ELSE "raised"]
       /\ queue' = Append(queue,
            [call_id |-> i,
             return_value |-> IF ok THEN ReturnValue(target_arg_tuples[i])
                              ELSE None,
             traceback |-> IF ok THEN None ELSE Traceback(i)])
  /\ UNCHANGED <<inputVars, retryVars, procVars, target_arg_tuples, max_concurrency, pc,
                 call_id, next_call_id, active_thread_count, results,
                 error_strings, raised, returned>>

\* Results the controller has taken from the queue so far.
Received ==
  Cardinality({i \in DOMAIN thread_state :
                 thread_state[i] \in {"returned", "raised"}}) - Len(queue)

\* Line 277: the index of results a received result is stored at.
ResultSlotByArrival(r) == Received
ResultSlot(r) == r.call_id

\* Lines 278-282: error_strings after a received result.
RecordErrorKeepLast(errs, r) ==
  IF r.traceback # None THEN <<r.call_id>> ELSE errs
RecordError(errs, r) ==
  IF r.traceback # None THEN Append(errs, r.call_id) ELSE errs

\* Lines 283-293: what the controller does with the worker count after a
\* result: [count, next, launch], launch being the call to start or -1.
AfterResultNoRelaunch(count, next, n) ==
  [count |-> count - 1, next |-> next, launch |-> 0 - 1]
AfterResult(count, next, n) ==
  IF next = n
    THEN [count |-> count - 1, next |-> next, launch |-> 0 - 1]
    ELSE [count |-> count, next |-> next + 1, launch |-> next]

\* Lines 271-293: one iteration of the while loop that gets a result.
ThreadsReceive ==
  /\ pc = "wait_threads"
  /\ active_thread_count # 0
  /\ queue # <<>>
  /\ LET r == Head(queue)
         a == AfterResult(active_thread_count, next_call_id, NumCalls)
     IN /\ queue' = Tail(queue)
        /\ call_id' = r.call_id
        /\ results' = [results EXCEPT ![ResultSlot(r)] = r.return_value]
        /\ error_strings' = RecordError(error_strings, r)
        /\ active_thread_count' = a.count
        /\ next_call_id' = a.next
        /\ IF a.launch >= 0 THEN StartThread(a.launch)
                            ELSE UNCHANGED thread_state
  /\ UNCHANGED <<inputVars, retryVars, procVars, target_arg_tuples, max_concurrency, pc,
                 raised, returned>>

\* Lines 294-298: the loop has ended.
ThreadsFinish ==
  /\ pc = "wait_threads"
  /\ active_thread_count = 0
  /\ pc' = "done"
  /\ IF error_strings # <<>>
       THEN raised' = "ThreadException" /\ UNCHANGED returned
       ELSE returned' = results /\ UNCHANGED raised
  /\ UNCHANGED <<inputVars, retryVars, threadVars, procVars, target_arg_tuples,
                 max_concurrency, call_id, next_call_id, error_strings,
                 queue>>

\* --------------------------------------------------- RunParallelProcesses
\* A manager.Namespace() with return_value and traceback set to None
\* (lines 465-467), and the None a call_results entry holds before that.
NoSlot == [allocated |-> FALSE, return_value |-> None, traceback |-> None]
NewSlot == [allocated |-> TRUE, return_value |-> None, traceback |-> None]

\* process.is_alive(): started and not exited (False for an unstarted one).
IsAliveUnlessExited(i) == proc_state[i] # "exited"
IsAlive(i) == proc_state[i] \in {"running", "wrote", "published"}

\* The sequence s without its element x.
Without(s, x) == SelectSeq(s, LAMBDA y : y # x)

\* x in the keys of the OrderedDict.
IsActive(x) == \E k \in 1..Len(active_processes) : active_processes[k] = x

\* The condition of both while loops (lines 452-453 and 456-457).
LoopCond ==
  \/ active_processes # <<>>
  \/ (next_call_id < NumCalls /\ received_interrupt = None)

\* The condition of the dispatch branch (lines 460-462).
CanDispatchOffByOne ==
  /\ next_call_id < NumCalls
  /\ PyLess(Len(active_processes) - 1, max_concurrency)
  /\ received_interrupt = None
CanDispatchIgnoringInterrupt ==
  /\ next_call_id < NumCalls
  /\ PyLess(Len(active_processes), max_concurrency)
CanDispatch ==
  /\ next_call_id < NumCalls
  /\ PyLess(Len(active_processes), max_concurrency)
  /\ received_interrupt = None

\* Lines 440-449.
ProcsStart ==
  /\ pc = "RunParallelProcesses"
  /\ max_concurrency' = PyMin(max_concurrency, NumCalls)
  /\ active_processes' = <<>>
  /\ call_results' = ListOf(NoSlot, NumCalls)
  /\ proc_state' = ListOf("unstarted", NumCalls)
  /\ logged' = ListOf(0, NumCalls)
  /\ next_call_id' = 0
  /\ received_interrupt' = None
  /\ pc' = "outer_test"
  /\ UNCHANGED <<inputVars, retryVars, threadVars, target_arg_tuples, call_id,
                 error_strings, queue, e, killed, interrupts, raised,
                 returned>>

\* Line 452: the outer while; when it ends the try block is left.
OuterTest ==
  /\ pc = "outer_test"
  /\ pc' = IF LoopCond THEN "inner_test" ELSE "gather"
  /\ UNCHANGED <<inputVars, retryVars, threadVars, procVars, target_arg_tuples,
                 max_concurrency, call_id, next_call_id, error_strings,
                 queue, raised, returned>>

\* Lines 456-474: the inner while and, when a call can be dispatched, its
\* result slot and next_call_id; otherwise on to the wait (line 486).
InnerTest ==
  /\ pc = "inner_test"
  /\ IF ~LoopCond
       THEN /\ pc' = "outer_test"
            /\ UNCHANGED <<call_id, call_results, next_call_id>>
     ELSE IF CanDispatch
       THEN /\ call_id' = next_call_id
            /\ call_results' = [call_results EXCEPT ![next_call_id] = NewSlot]
            /\ next_call_id' = next_call_id + 1
            /\ pc' = "before_active"
     ELSE /\ pc' = "wait"
          /\ UNCHANGED <<call_id, call_results, next_call_id>>
  /\ UNCHANGED <<inputVars, retryVars, threadVars, target_arg_tuples, max_concurrency,
                 error_strings, queue, active_processes, received_interrupt,
                 e, proc_state, killed, logged, interrupts, raised, returned>>

\* Line 477: active_processes[call_id] = process.
BeforeActive ==
  /\ pc = "before_active"
  /\ active_processes' = Append(active_processes, call_id)
  /\ pc' = "after_active"
  /\ UNCHANGED <<inputVars, retryVars, threadVars, target_arg_tuples, max_concurrency,
                 call_id, next_call_id, error_strings, queue, call_results,
                 received_interrupt, e, proc_state, killed, logged,
                 interrupts, raised, returned>>

\* Lines 480-483: process.start(), then continue.
AfterActive ==
  /\ pc = "after_active"
  /\ proc_state' = [proc_state EXCEPT ![call_id] = "running"]
  /\ pc' = "inner_test"
  /\ UNCHANGED <<inputVars, retryVars, threadVars, target_arg_tuples, max_concurrency,
                 call_id, next_call_id, error_strings, queue,
                 active_processes, call_results, received_interrupt, e,
                 killed, logged, interrupts, raised, returned>>

\* Lines 486-500: a call_id from the queue; after an interrupt the get does
\* not block and an empty queue yields the first key of active_processes.
\* Without an interrupt the get blocks until the queue holds an id.
\* GetDoesNotBlock is the test of line 486 that picks queue.get(block=False).
GetAlwaysBlocks == FALSE
GetDoesNotBlock == received_interrupt # None

Wait ==
  /\ pc = "wait"
  /\ IF queue # <<>>
       THEN call_id' = Head(queue) /\ queue' = Tail(queue)
       ELSE /\ GetDoesNotBlock
            /\ call_id' = Head(active_processes)
            /\ UNCHANGED queue
  /\ pc' = "got_id"
  /\ UNCHANGED <<inputVars, retryVars, threadVars, procVars, target_arg_tuples,
                 max_concurrency, next_call_id, error_strings, raised,
                 returned>>

\* Lines 504-507: the process of call_id, if still active, is joined when
\* alive; an id that is not active is dropped.
GotId ==
  /\ pc = "got_id"
  /\ pc' = IF ~IsActive(call_id) THEN "inner_test"
           ELSE IF IsAlive(call_id) THEN "join" ELSE "read"
  /\ UNCHANGED <<inputVars, retryVars, threadVars, procVars, target_arg_tuples,
                 max_concurrency, call_id, next_call_id, error_strings,
                 queue, raised, returned>>

\* Line 507: process.join() returns once the process has exited.
Join ==
  /\ pc = "join"
  /\ ~IsAlive(call_id)
  /\ pc' = "read"
  /\ UNCHANGED <<inputVars, retryVars, threadVars, procVars, target_arg_tuples,
                 max_concurrency, call_id, next_call_id, error_strings,
                 queue, raised, returned>>

\* Lines 510-514: the slot's traceback is read and, if set, logged.
ReadResult ==
  /\ pc = "read"
  /\ logged' = IF call_results[call_id].traceback # None
                 THEN [logged EXCEPT ![call_id] = @ + 1] ELSE logged
  /\ pc' = "pop"
  /\ UNCHANGED <<inputVars, retryVars, threadVars, target_arg_tuples, max_concurrency,
                 call_id, next_call_id, error_strings, queue,
                 active_processes, call_results, received_interrupt, e,
                 proc_state, killed, interrupts, raised, returned>>

\* Line 515: active_processes.pop(call_id).
Pop ==
  /\ pc = "pop"
  /\ active_processes' = Without(active_processes, call_id)
  /\ pc' = "inner_test"
  /\ UNCHANGED <<inputVars, retryVars, threadVars, target_arg_tuples, max_concurrency,
                 call_id, next_call_id, error_strings, queue, call_results,
                 received_interrupt, e, proc_state, killed, logged,
                 interrupts, raised, returned>>

\* Positions of the controller inside the inner try (lines 454-515), and
\* inside the outer try only (line 452 and the handler at lines 516-526).
InnerTryPcs == {"inner_test", "before_active", "after_active", "wait",
                "got_id", "join", "read", "pop"}
OuterTryPcs == {"outer_test", "handle_first"}

\* Where a KeyboardInterrupt raised at position p lands.  Inside the inner try
\* the handler at line 516 runs: it re-raises when an interrupt was already
\* received (lines 517-518), which the outer handler (line 527) catches.
\* Outside the inner try only the outer handler applies.
CatchTargetAlwaysOuter(p, ri) == "outer_except"
CatchTargetNoReraise(p, ri) ==
  IF p \in InnerTryPcs THEN "handle_first" ELSE "outer_except"
CatchTarget(p, ri) ==
  IF p \in InnerTryPcs /\ ri = None THEN "handle_first" ELSE "outer_except"

\* A KeyboardInterrupt raised in the controller while it is inside the try
\* block of lines 450-526.  "except KeyboardInterrupt as e" (line 516) binds e;
\* "except KeyboardInterrupt:" (line 527) does not.
Interrupt ==
  /\ pc \in InnerTryPcs \cup OuterTryPcs
  /\ interrupts' = interrupts + 1
  /\ e' = IF pc \in InnerTryPcs THEN <<interrupts + 1>> ELSE e
  /\ pc' = CatchTarget(pc, received_interrupt)
  /\ UNCHANGED <<inputVars, retryVars, threadVars, target_arg_tuples, max_concurrency,
                 call_id, next_call_id, error_strings, queue,
                 active_processes, call_results, received_interrupt,
                 proc_state, killed, logged, raised, returned>>

\* Lines 525-526: the first interrupt is logged and recorded.
HandleFirst ==
  /\ pc = "handle_first"
  /\ received_interrupt' = e
  /\ pc' = "outer_test"
  /\ UNCHANGED <<inputVars, retryVars, threadVars, target_arg_tuples, max_concurrency,
                 call_id, next_call_id, error_strings, queue,
                 active_processes, call_results, e, proc_state, killed,
                 logged, interrupts, raised, returned>>

\* The processes os.kill is called on (lines 531-537): those of
\* active_processes with a pid (started) and no exitcode (not exited).
KillTargetsFirstOnly ==
  {i \in CallIds : /\ active_processes # <<>>
                   /\ i = Head(active_processes)
                   /\ proc_state[i] # "unstarted"
                   /\ proc_state[i] # "exited"}
KillTargets ==
  {i \in CallIds : IsActive(i) /\ proc_state[i] # "unstarted"
                               /\ proc_state[i] # "exited"}

\* Lines 527-539: the outer handler.  logging.exception(e) reads the local e,
\* which is unbound when no "except ... as e" ran before: UnboundLocalError.
OuterExcept ==
  /\ pc = "outer_except"
  /\ IF e = None
       THEN /\ raised' = "UnboundLocalError"
            /\ pc' = "done"
            /\ UNCHANGED <<received_interrupt, killed>>
       ELSE /\ received_interrupt' = e
            /\ killed' = killed \cup KillTargets
            /\ pc' = "gather"
            /\ UNCHANGED raised
  /\ UNCHANGED <<inputVars, retryVars, threadVars, target_arg_tuples, max_concurrency,
                 call_id, next_call_id, error_strings, queue,
                 active_processes, call_results, e, proc_state, logged,
                 interrupts, returned>>

\* The call ids 0..n-1 in order.
IdSeq(n) == [k \in 1..n |-> k - 1]

\* Lines 541-550: return_values and error_strings from the slots.
GatherValuesCompact(cr) ==
  LET ids == SelectSeq(IdSeq(Cardinality(DOMAIN cr)),
                       LAMBDA i : cr[i].allocated)
  IN [k \in 0..(Len(ids) - 1) |-> cr[ids[k + 1]].return_value]
GatherValuesOrTraceback(cr) ==
  [i \in DOMAIN cr |->
     IF ~cr[i].allocated THEN None
     ELSE IF cr[i].traceback # None THEN cr[i].traceback
     ELSE cr[i].return_value]
GatherValues(cr) ==
  [i \in DOMAIN cr |-> IF cr[i].allocated THEN cr[i].return_value ELSE None]
GatherErrorsFirstOnly(cr) ==
  LET all == SelectSeq(IdSeq(Cardinality(DOMAIN cr)),
                       LAMBDA i : cr[i].allocated /\ cr[i].traceback # None)
  IN IF all = <<>> THEN <<>> ELSE <<Head(all)>>
GatherErrors(cr) ==
  SelectSeq(IdSeq(Cardinality(DOMAIN cr)),
            LAMBDA i : cr[i].allocated /\ cr[i].traceback # None)

\* Lines 551-559: the exception raised at the end, "" for a return.
FinalException(errs, ri, suppress) ==
  IF errs # <<>> /\ ~(ri # None \/ suppress) THEN "CalledProcessException"
  ELSE IF ri # None /\ ~suppress THEN "KeyboardInterrupt"
  ELSE ""

\* Lines 541-559.
Gather ==
  /\ pc = "gather"
  /\ error_strings' = GatherErrors(call_results)
  /\ raised' = FinalException(error_strings', received_interrupt,
                              suppress_exceptions)
  /\ returned' = IF raised' = "" THEN GatherValues(call_results)
                 ELSE returned
  /\ pc' = "done"
  /\ UNCHANGED <<inputVars, retryVars, threadVars, procVars, target_arg_tuples,
                 max_concurrency, call_id, next_call_id, queue>>

\* _ExecuteProcCall, lines 392-397: the target returns or raises (a
\* KeyboardInterrupt inside the call included) and the slot is written.
ProcExecute(i) ==
  /\ entry = "RunParallelProcesses"
  /\ pc # "done"
  /\ i \in DOMAIN proc_state
  /\ proc_state[i] = "running"
  /\ \E ok \in BOOLEAN :
       call_results' = [call_results EXCEPT ![i] =
         IF ok THEN [@ EXCEPT !.return_value =
                       ReturnValue(target_arg_tuples[i])]
               ELSE [@ EXCEPT !.traceback = Traceback(i)]]
  /\ proc_state' = [proc_state EXCEPT ![i] = "wrote"]
  /\ UNCHANGED <<inputVars, retryVars, threadVars, target_arg_tuples, max_concurrency,
                 pc, call_id, next_call_id, error_strings, queue,
                 active_processes, received_interrupt, e, killed, logged,
                 interrupts, raised, returned>>

\* _ExecuteProcCall, line 400: queue.put(call_id).
ProcPublish(i) ==
  /\ entry = "RunParallelProcesses"
  /\ pc # "done"
  /\ i \in DOMAIN proc_state
  /\ proc_state[i] = "wrote"
  /\ queue' = Append(queue, i)
  /\ proc_state' = [proc_state EXCEPT ![i] = "published"]
  /\ UNCHANGED <<inputVars, retryVars, threadVars, target_arg_tuples, max_concurrency,
                 pc, call_id, next_call_id, error_strings,
                 active_processes, call_results, received_interrupt, e,
                 killed, logged, interrupts, raised, returned>>

\* The process ends: after the put, or before it on a KeyboardInterrupt
\* outside the call (lines 403-404) or on a signal that kills it.
ProcExit(i) ==
  /\ entry = "RunParallelProcesses"
  /\ pc # "done"
  /\ i \in DOMAIN proc_state
  /\ IsAlive(i)
  /\ proc_state' = [proc_state EXCEPT ![i] = "exited"]
  /\ UNCHANGED <<inputVars, retryVars, threadVars, target_arg_tuples, max_concurrency,
                 pc, call_id, next_call_id, error_strings, queue,
                 active_processes, call_results, received_interrupt, e,
                 killed, logged, interrupts, raised, returned>>

\* ------------------------------------------------------------------ Retry
\* How a call of the wrapped function f ends: it returns, raises an exception
\* of retryable_exceptions, or raises another one.
Outcomes == {"returned", "retryable", "other"}

\* The value f returns at its k-th call.
FValue(k) == <<"value", k>>

\* Lines 597-601: the deadline, None standing for float('inf').
Deadline(t, to, dflt) ==
  LET local_timeout == IF to = None THEN dflt ELSE to[1]
  IN IF local_timeout >= 0 THEN <<t + local_timeout>> ELSE None

\* Lines 596-603: WrappedFunction up to the loop.
WrappedFunction ==
  /\ pc = "WrappedFunction"
  /\ deadline' = Deadline(now, timeout, default_timeout)
  /\ tries' = 0
  /\ pc' = "call"
  /\ UNCHANGED <<entry, poolVars, e, raised, returned, poll_interval,
                 max_retries, timeout, fuzz, default_timeout, now, sleeps,
                 attempts>>

\* Line 609: the except clause catches the exceptions of
\* retryable_exceptions only.
CaughtAny(out) == out # "returned"
Caught(out) == out = "retryable"

\* Line 607: "return f(...)" leaves the loop.
ReturnTargetLoop == "call"
ReturnTarget == "done"

\* Lines 605-609: tries += 1 and one call of f, which takes some time and
\* returns or raises.  An exception that is not caught leaves WrappedFunction.
CallF ==
  /\ pc = "call"
  /\ tries < MaxTries
  /\ tries' = tries + 1
  /\ \E out \in Outcomes, d \in 0..MaxDuration :
       /\ attempts' = Append(attempts, out)
       /\ now' = now + d
       /\ IF out = "returned"
            THEN /\ pc' = ReturnTarget
                 /\ returned' = FValue(tries')
                 /\ UNCHANGED <<raised, e>>
          ELSE IF Caught(out)
            THEN /\ pc' = "except"
                 /\ e' = <<tries'>>
                 /\ UNCHANGED <<raised, returned>>
          ELSE /\ pc' = "done"
               /\ raised' = "OtherError"
               /\ UNCHANGED <<returned, e>>
  /\ UNCHANGED <<entry, poolVars, poll_interval, max_retries, timeout, fuzz,
                 default_timeout, deadline, sleeps>>

\* Lines 610-611: sleep_time = poll_interval * (1 - fuzz + random() * fuzz)
\* for random() in [0, 1), in whole seconds (rounded down); fz is fuzz in
\* FuzzSteps-ths.
SleepTimes(poll, fz) ==
  IF fz = 0 \/ poll = 0 THEN {poll}
  ELSE {t \in 0..(poll - 1) : (t + 1) * FuzzSteps > poll * (FuzzSteps - fz)}

\* Lines 612-613: the test that ends the retries.
GiveUpPastDeadline(t, sleep_time, dl, mr, n) ==
  \/ dl # None /\ t + sleep_time > dl[1]
  \/ mr >= 0 /\ n > mr
GiveUpOneEarly(t, sleep_time, dl, mr, n) ==
  \/ dl # None /\ t + sleep_time >= dl[1]
  \/ mr >= 0 /\ n >= mr
GiveUp(t, sleep_time, dl, mr, n) ==
  \/ dl # None /\ t + sleep_time >= dl[1]
  \/ mr >= 0 /\ n > mr

\* Lines 609-618: the handler of a retryable exception: raise e, or sleep
\* and go round the loop.
HandleRetryable ==
  /\ pc = "except"
  /\ \E sleep_time \in SleepTimes(poll_interval, fuzz) :
       IF GiveUp(now, sleep_time, deadline, max_retries, tries)
         THEN /\ raised' = "RetryableError"
              /\ pc' = "done"
              /\ UNCHANGED <<now, sleeps>>
         ELSE /\ now' = now + sleep_time
              /\ sleeps' = sleeps + 1
              /\ pc' = "call"
              /\ UNCHANGED raised
  /\ UNCHANGED <<entry, poolVars, e, returned, poll_interval, max_retries,
                 timeout, fuzz, default_timeout, deadline, tries, attempts>>

\* ------------------------------------------------------- specification
Entries == {"RunThreaded", "RunParallelThreads", "RunParallelProcesses",
            "WrappedFunction"}

\* The timeout arguments tried: None, -1, 0 and up to MaxTimeout.
TimeoutValues == {None} \cup {<<k>> : k \in (0 - 1)..MaxTimeout}

BatchBound(en) ==
  IF en = "RunThreaded" THEN MaxParams
  ELSE IF en = "RunParallelThreads" THEN MaxCalls
  ELSE IF en = "RunParallelProcesses" THEN MaxProcCalls ELSE 0

Init ==
  /\ entry \in Entries
  /\ IF entry = "WrappedFunction"
       THEN max_concurrency = None
       ELSE max_concurrency \in McValues(BatchBound(entry))
  /\ IF entry = "RunThreaded"
       THEN /\ thread_params \in
                 {[is_list |-> TRUE, items |-> l] : l \in ParamLists}
                 \cup {[is_list |-> FALSE, items |-> <<>>]}
            /\ target_arg_tuples = DirectBatch(0)
       ELSE /\ thread_params = [is_list |-> TRUE, items |-> <<>>]
            /\ target_arg_tuples \in
                 {DirectBatch(n) : n \in 0..BatchBound(entry)}
  /\ IF entry = "RunParallelProcesses"
       THEN suppress_exceptions \in BOOLEAN
       ELSE suppress_exceptions = FALSE
  /\ pc = entry
  /\ call_id = 0
  /\ next_call_id = 0
  /\ active_thread_count = 0
  /\ results = ListOf(None, 0)
  /\ error_strings = <<>>
  /\ queue = <<>>
  /\ thread_state = ListOf("unstarted", 0)
  /\ active_processes = <<>>
  /\ call_results = ListOf(NoSlot, 0)
  /\ received_interrupt = None
  /\ e = None
  /\ proc_state = ListOf("unstarted", 0)
  /\ killed = {}
  /\ logged = ListOf(0, 0)
  /\ interrupts = 0
  /\ raised = ""
  /\ returned = ListOf(None, 0)
  /\ IF entry = "WrappedFunction"
       THEN /\ poll_interval \in 0..MaxPoll
            /\ max_retries \in (0 - 1)..MaxRetries
            /\ timeout \in TimeoutValues
            /\ fuzz \in 0..FuzzSteps
            /\ IF timeout = None
                 THEN default_timeout \in (0 - 1)..MaxTimeout
                 ELSE default_timeout = TIMEOUT
       ELSE /\ poll_interval = POLL_INTERVAL
            /\ max_retries = MAX_RETRIES
            /\ timeout = None
            /\ fuzz = 0
            /\ default_timeout = TIMEOUT
  /\ now = 0
  /\ deadline = None
  /\ tries = 0
  /\ sleeps = 0
  /\ attempts = <<>>

Next ==
  \/ RunThreaded
  \/ ThreadsStart
  \/ ThreadsLaunch
  \/ \E i \in CallIds : ExecuteThreadCall(i)
  \/ ThreadsReceive
  \/ ThreadsFinish
  \/ ProcsStart
  \/ OuterTest
  \/ InnerTest
  \/ BeforeActive
  \/ AfterActive
  \/ Wait
  \/ GotId
  \/ Join
  \/ ReadResult
  \/ Pop
  \/ Interrupt
  \/ HandleFirst
  \/ OuterExcept
  \/ Gather
  \/ \E i \in CallIds : ProcExecute(i)
  \/ \E i \in CallIds : ProcPublish(i)
  \/ \E i \in CallIds : ProcExit(i)
  \/ WrappedFunction
  \/ CallF
  \/ HandleRetryable

Spec == Init /\ [][Next]_vars

\* RunParallelProcesses alone, with fairness: the controller (the main
\* thread of the parent process) keeps running while it has a step to take,
\* and every worker process that is alive eventually exits.  No fairness is
\* put on Interrupt: a KeyboardInterrupt may never come.
ProcInit == Init /\ entry = "RunParallelProcesses"

Controller ==
  \/ ProcsStart
  \/ OuterTest
  \/ InnerTest
  \/ BeforeActive
  \/ AfterActive
  \/ Wait
  \/ GotId
  \/ Join
  \/ ReadResult
  \/ Pop
  \/ HandleFirst
  \/ OuterExcept
  \/ Gather

ProcNext ==
  \/ Controller
  \/ Interrupt
  \/ \E i \in CallIds : ProcExecute(i)
  \/ \E i \in CallIds : ProcPublish(i)
  \/ \E i \in CallIds : ProcExit(i)

FairProcSpec ==
  /\ ProcInit
  /\ [][ProcNext]_vars
  /\ WF_vars(Controller)
  /\ \A i \in 0..(MaxProcCalls - 1) : WF_vars(ProcExit(i))

\* ======================================================================
\* Properties
\* ======================================================================
ThreadEntry == entry \in {"RunThreaded", "RunParallelThreads"}
ProcEntry == entry = "RunParallelProcesses"

\* The elements of a sequence, as a set.
Range(s) == {s[k] : k \in 1..Len(s)}

\* max_concurrency is an int that is at least 1.
McAtLeastOne == max_concurrency # None /\ max_concurrency[1] >= 1

\* thread_params is one of the documented shapes of RunThreaded: a list of
\* bare values only, or a list of (args, kwargs) pairs only.
Documented ==
  \/ \A k \in 1..Len(thread_params.items) : thread_params.items[k] = "bare"
  \/ \A k \in 1..Len(thread_params.items) : thread_params.items[k] = "pair"

\* What the i-th element of a documented thread_params asks for: the bare
\* value as the sole positional argument, the pair unpacked.
ExpectedCall(i) ==
  IF thread_params.items[i + 1] = "bare" THEN <<"positional", i>>
  ELSE <<"unpacked", i>>

\* C1: thread pool order invariance.  When RunThreaded / RunParallelThreads
\* returns for a batch of N >= 1 calls with max_concurrency >= 1, the list has
\* length N and its i-th element is the value returned by the i-th submitted
\* call, whatever order the workers completed in; through RunThreaded, for a
\* list of bare values that call is target(value) and for a list of
\* (args, kwargs) pairs it is target(*args, **kwargs).
C1_ThreadOrderInvariance ==
  (ThreadEntry /\ pc = "done" /\ raised = "" /\ NumCalls >= 1
     /\ McAtLeastOne)
  => /\ DOMAIN returned = 0..(NumCalls - 1)
     /\ \A i \in CallIds :
          /\ returned[i] = ReturnValue(target_arg_tuples[i])
          /\ (entry = "RunThreaded" /\ Documented)
               => returned[i] = ExpectedCall(i)

\* C1 witness: RunThreaded returned for two (args, kwargs) pairs run
\* concurrently whose results arrived in reverse order (call 0 last).
C1_Witness ==
  /\ entry = "RunThreaded" /\ pc = "done" /\ raised = ""
  /\ thread_params.items = <<"pair", "pair">>
  /\ max_concurrency = <<2>>
  /\ call_id = 0
  /\ returned[1] = <<"unpacked", 1>>

\* Threads that were launched and whose result the controller has not taken.
InFlightThreads ==
  {i \in DOMAIN thread_state : thread_state[i] = "running"}
    \cup {queue[k].call_id : k \in 1..Len(queue)}

\* C3: thread pool concurrency bound.  With max_concurrency >= 1, the workers
\* launched and not yet received never number more than max_concurrency, nor
\* more than N.
C3_ThreadConcurrencyBound ==
  (ThreadEntry /\ McAtLeastOne)
  => /\ Cardinality(InFlightThreads) <= max_concurrency[1]
     /\ Cardinality(InFlightThreads) <= NumCalls

\* C3 witness: the pool is at its bound, below N, after a finished worker
\* was replaced by the next call.
C3_Witness ==
  /\ ThreadEntry /\ pc = "wait_threads"
  /\ max_concurrency = <<2>> /\ NumCalls = 3
  /\ next_call_id = 3
  /\ Cardinality(InFlightThreads) = 2

\* Calls whose target raised in its thread.
RaisedCalls == {i \in DOMAIN thread_state : thread_state[i] = "raised"}

\* C9: thread pool aggregate failure.  RunParallelThreads ends with
\* ThreadException exactly when some call raised; by then every one of the N
\* calls has run and had its result received, and the message has one entry
\* for each failed call and none for any other.
C9_ThreadAggregateFailure ==
  (ThreadEntry /\ pc = "done")
  => /\ (raised = "ThreadException") <=> (RaisedCalls # {})
     /\ raised = "ThreadException"
          => /\ \A i \in CallIds : thread_state[i] \in {"returned", "raised"}
             /\ queue = <<>>
             /\ Range(error_strings) = RaisedCalls
             /\ Len(error_strings) = Cardinality(RaisedCalls)

\* C9 witness: with one worker at a time, call 0 raised, the later calls were
\* still launched, and call 2 returned before ThreadException was raised.
C9_Witness ==
  /\ ThreadEntry /\ pc = "done" /\ raised = "ThreadException"
  /\ NumCalls = 3 /\ max_concurrency = <<1>>
  /\ thread_state[0] = "raised" /\ thread_state[1] = "raised"
  /\ thread_state[2] = "returned"

\* The worker of call i ran the call to the end and it returned a value.
Succeeded(i) ==
  /\ proc_state[i] \in {"wrote", "published", "exited"}
  /\ call_results[i].traceback = None
  /\ call_results[i].return_value # None

\* The call of worker i raised: its slot holds a traceback.
Failed(i) == call_results[i].traceback # None

\* C2: process pool order invariance.  Whenever RunParallelProcesses returns,
\* the list has length N and, for every call whose worker completed
\* successfully, element i is the return value of call i, whatever order the
\* workers completed or were reaped in.
C2_ProcOrderInvariance ==
  (ProcEntry /\ pc = "done" /\ raised = "")
  => /\ DOMAIN returned = 0..(NumCalls - 1)
     /\ \A i \in CallIds :
          Succeeded(i) => returned[i] = ReturnValue(target_arg_tuples[i])

\* C2 witness: two workers ran concurrently, call 1 was reaped before call 0,
\* and the list returned holds each value at its own index.
C2_Witness ==
  /\ ProcEntry /\ pc = "done" /\ raised = "" /\ interrupts = 0
  /\ NumCalls = 2 /\ max_concurrency = <<2>>
  /\ call_id = 0
  /\ returned[0] = <<"direct", 0>> /\ returned[1] = <<"direct", 1>>

\* C4: process pool concurrency bound.  With an int max_concurrency >= 1,
\* active_processes never holds more than min(max_concurrency, N) workers
\* (max_concurrency is that minimum from line 440 on); a worker is added only
\* when active_processes is strictly below the bound; and no worker is
\* removed from it while its process is alive.
C4_ProcConcurrencyBound ==
  /\ []((ProcEntry /\ pc # "RunParallelProcesses" /\ McAtLeastOne)
          => /\ Len(active_processes) <= max_concurrency[1]
             /\ Len(active_processes) <= NumCalls)
  /\ [][(ProcEntry /\ pc # "RunParallelProcesses" /\ McAtLeastOne)
          => /\ Len(active_processes') > Len(active_processes)
                  => Len(active_processes) < max_concurrency[1]
             /\ \A i \in CallIds :
                  (IsActive(i) /\ ~(\E k \in 1..Len(active_processes') :
                                      active_processes'[k] = i))
                    => ~IsAlive(i)]_vars

\* C4 witness: the registry is full, below N, and the controller waits.
C4_Witness ==
  /\ ProcEntry /\ pc = "wait" /\ interrupts = 0
  /\ max_concurrency = <<1>> /\ NumCalls = 2
  /\ next_call_id = 1
  /\ Len(active_processes) = 1
  /\ proc_state[0] = "running"

\* C5: no launch after cancellation.  Once a KeyboardInterrupt was raised in
\* the controller, next_call_id never increases and no process is started.
C5_NoLaunchAfterInterrupt ==
  [][(ProcEntry /\ interrupts >= 1)
       => /\ next_call_id' = next_call_id
          /\ \A i \in DOMAIN proc_state :
               proc_state[i] = "unstarted" => proc_state'[i] = "unstarted"]_vars

\* C5 witness: after the first interrupt the loop still runs with a call
\* left to start and active_processes below the bound.
C5_Witness ==
  /\ ProcEntry /\ pc = "inner_test" /\ interrupts = 1
  /\ received_interrupt # None
  /\ next_call_id < NumCalls
  /\ active_processes # <<>>
  /\ Len(active_processes) < max_concurrency[1]

\* C6: soft cancellation drains.  In a run with exactly one interrupt no
\* process is sent SIGKILL, and the controller is past the loop (gathering
\* results, or done) only when active_processes is empty and every process
\* that was started has exited.
C6_SoftCancellationDrains ==
  (ProcEntry /\ interrupts = 1)
  => /\ killed = {}
     /\ pc \in {"gather", "done"}
          => /\ active_processes = <<>>
             /\ \A i \in DOMAIN proc_state :
                  proc_state[i] \in {"unstarted", "exited"}

\* C6 witness: one interrupt, a started worker drained, a call never started.
C6_Witness ==
  /\ ProcEntry /\ pc = "gather" /\ interrupts = 1
  /\ NumCalls = 2 /\ next_call_id = 1
  /\ proc_state[0] = "exited" /\ proc_state[1] = "unstarted"
  /\ call_results[0].return_value # None

\* C7: hard cancellation kills.  After the second interrupt the controller is
\* only ever in the outer handler, gathering or done (it joins nothing), and
\* once the handler ran every process of active_processes that is alive has
\* been sent SIGKILL.
C7_HardCancellationKills ==
  (ProcEntry /\ interrupts = 2)
  => /\ pc \in {"outer_except", "gather", "done"}
     /\ pc \in {"gather", "done"}
          => \A i \in CallIds : (IsActive(i) /\ IsAlive(i)) => i \in killed

\* C7 witness: the second interrupt found two live workers, both killed, and
\* the controller gathers results while they are still in active_processes.
C7_Witness ==
  /\ ProcEntry /\ pc = "gather" /\ interrupts = 2
  /\ killed = {0, 1}
  /\ Len(active_processes) = 2
  /\ IsAlive(0)

\* The interrupt phase of the process pool, read off the controller's state:
\* HARD once the outer handler is entered, SOFT while received_interrupt is
\* set, NONE before.
Phase ==
  IF pc = "outer_except" \/ interrupts = 2 \/ raised = "UnboundLocalError"
    THEN "HARD"
  ELSE IF received_interrupt # None THEN "SOFT"
  ELSE "NONE"

Rank(ph) == IF ph = "NONE" THEN 0 ELSE IF ph = "SOFT" THEN 1 ELSE 2

\* C8: the interrupt phase only moves forward.  It changes only in a step
\* where the controller receives an interrupt or finishes handling one, its
\* rank never decreases, and in HARD the controller stays in the outer
\* handler, gathering or done: it starts no process, advances no
\* next_call_id and removes nothing from active_processes.
C8_PhaseMonotone ==
  [][ProcEntry
       => /\ Phase' # Phase
               => (interrupts' = interrupts + 1 \/ pc = "handle_first")
          /\ Rank(Phase') >= Rank(Phase)
          /\ Phase = "HARD"
               => /\ pc' \in {"outer_except", "gather", "done"}
                  /\ next_call_id' = next_call_id
                  /\ active_processes' = active_processes
                  /\ \A i \in DOMAIN proc_state :
                       proc_state[i] = "unstarted"
                         => proc_state'[i] = "unstarted"]_vars

\* C8 witness: HARD was reached through SOFT with calls left to start and a
\* worker still registered.
C8_Witness ==
  /\ ProcEntry /\ Phase = "HARD" /\ pc = "gather"
  /\ received_interrupt = <<2>>
  /\ next_call_id < NumCalls
  /\ active_processes # <<>>

\* C10: process pool aggregate failure without interrupts.  When a run with
\* no interrupt and suppress_exceptions False ends, all N calls have been
\* launched; it ends with CalledProcessException exactly when some call
\* failed, otherwise it returns; and the message lists each failed call once
\* and no other call.
C10_ProcAggregateFailure ==
  (ProcEntry /\ pc = "done" /\ interrupts = 0 /\ ~suppress_exceptions)
  => /\ next_call_id = NumCalls
     /\ \A i \in CallIds : proc_state[i] # "unstarted"
     /\ (raised = "CalledProcessException") <=> (\E i \in CallIds : Failed(i))
     /\ raised \in {"", "CalledProcessException"}
     /\ Range(error_strings) = {i \in CallIds : Failed(i)}
     /\ Len(error_strings) = Cardinality({i \in CallIds : Failed(i)})

\* C10 witness: one worker at a time, call 0 failed, call 1 was still
\* launched and failed too, and CalledProcessException lists both.
C10_Witness ==
  /\ ProcEntry /\ pc = "done" /\ interrupts = 0 /\ ~suppress_exceptions
  /\ raised = "CalledProcessException"
  /\ NumCalls = 2 /\ max_concurrency = <<1>>
  /\ error_strings = <<0, 1>>

\* ---------------------------------------------------------------- C11..C14
\* The process pool has ended: it returned or an exception left it.
ProcDone == ProcEntry /\ pc = "done"

\* C11: suppression never raises.  With suppress_exceptions True,
\* RunParallelProcesses ends by returning a list of length N: no exception
\* leaves it, whichever calls fail and however many interrupts (0, 1 or 2)
\* the controller received.
C11_SuppressionNeverRaises ==
  (ProcDone /\ suppress_exceptions)
    => /\ raised = ""
       /\ DOMAIN returned = CallIds

\* Call i was not launched: no process was started for it, either because
\* its slot was never allocated or because the interrupt fell between the
\* allocation (line 463) and process.start() (line 476).
NeverLaunched(i) == proc_state[i] = "unstarted"

\* The worker of call i was still running the call when the results were
\* gathered: it had stored neither a return value nor a traceback.
StillRunning(i) == proc_state[i] = "running"

\* C12 as stated: in the list returned under suppression the entry is None
\* for every call that failed, every call never launched because of an
\* interrupt, and every call still in active_processes (not yet reaped) when
\* the second interrupt arrived.
C12_AbsentIfActiveAtSecondInterrupt ==
  (ProcDone /\ suppress_exceptions /\ raised = "")
    => \A i \in CallIds :
         (\/ Failed(i)
          \/ NeverLaunched(i)
          \/ (interrupts = 2 /\ IsActive(i)))
           => returned[i] = None

\* C12, amended: in the list returned under suppression the entry is None for
\* every call that failed, every call that was never launched, and every call
\* whose worker was still running it when the results were gathered; a call
\* still in active_processes at the second interrupt whose worker had already
\* stored its return value keeps that value.
C12_AbsentEntries ==
  (ProcDone /\ suppress_exceptions /\ raised = "")
    => /\ DOMAIN returned = CallIds
       /\ \A i \in CallIds :
            /\ (Failed(i) \/ NeverLaunched(i) \/ StillRunning(i))
                 => returned[i] = None
            /\ (interrupts = 2 /\ IsActive(i) /\ Succeeded(i))
                 => returned[i] = ReturnValue(target_arg_tuples[i])

\* C12 witness: two interrupts with both workers unreaped; the worker of
\* call 0 had stored its value, that of call 1 was killed while running.
C12_Witness ==
  /\ ProcDone /\ suppress_exceptions /\ raised = "" /\ interrupts = 2
  /\ NumCalls = 2
  /\ IsActive(0) /\ Succeeded(0) /\ returned[0] = <<"direct", 0>>
  /\ IsActive(1) /\ StillRunning(1) /\ 1 \in killed /\ returned[1] = None

\* C13: cancellation outranks the aggregate.  With suppress_exceptions
\* False, a run in which the controller received an interrupt ends by
\* raising that KeyboardInterrupt, never CalledProcessException, even when
\* some calls failed.
C13_CancellationOutranksAggregate ==
  (ProcDone /\ ~suppress_exceptions /\ interrupts >= 1)
    => raised = "KeyboardInterrupt"

\* C14: KeyboardInterrupt is raised exactly upon a second interrupt.  With
\* suppress_exceptions False, a run that received only one interrupt and
\* whose launched children then all completed and were reaped does not end by
\* raising KeyboardInterrupt; a run that received two does.
C14_KeyboardInterruptOnlyOnSecond ==
  (ProcDone /\ ~suppress_exceptions)
    => /\ (interrupts = 1 /\ active_processes = <<>>)
            => raised # "KeyboardInterrupt"
       /\ interrupts = 2 => raised = "KeyboardInterrupt"

\* ---------------------------------------------------------------- C15..C18
\* A pool ran a batch of N >= 1 envelopes to its end without an interrupt: it
\* returned, or raised its aggregate failure.
PoolEnded ==
  /\ pc = "done"
  /\ NumCalls >= 1
  /\ interrupts = 0
  /\ raised \in {"", "ThreadException", "CalledProcessException"}

\* Every call of the batch was launched and its one result was recorded: in
\* the thread pool every thread put its result and the controller took all
\* of them, in the process pool every slot holds a value or a traceback and
\* every worker was reaped.
OneResultPerCall ==
  IF ThreadEntry
    THEN /\ DOMAIN thread_state = CallIds
         /\ \A i \in CallIds : thread_state[i] \in {"returned", "raised"}
         /\ Received = NumCalls
    ELSE /\ \A i \in CallIds : /\ call_results[i].allocated
                               /\ Succeeded(i) \/ Failed(i)
                               /\ Succeeded(i) => ~Failed(i)
         /\ active_processes = <<>>

\* No call is launched a second time: a worker is started only for a call
\* that had none yet, and an allocated slot is never replaced by a fresh one.
LaunchedOnce ==
  /\ \A i \in DOMAIN thread_state :
       (thread_state[i] # "running" /\ thread_state'[i] = "running")
         => thread_state[i] = "unstarted"
  /\ \A i \in DOMAIN proc_state :
       /\ (proc_state[i] # "running" /\ proc_state'[i] = "running")
            => proc_state[i] = "unstarted"
       /\ call_results[i].allocated =>
            /\ call_results'[i].allocated
            /\ call_results[i].return_value # None =>
                 call_results'[i].return_value = call_results[i].return_value

\* C15 as stated: exactly one result per call for any integer
\* max_concurrency.  For a batch of N >= 1 envelopes and no interrupt, when a
\* pool returns or raises every envelope was launched exactly once and has
\* exactly one recorded result.
C15_OneResultForAnyInteger ==
  /\ [](PoolEnded => OneResultPerCall)
  /\ [][LaunchedOnce]_vars

\* C15, amended: exactly one result per call for an integer max_concurrency
\* that is at least 1 (clamped to min(max_concurrency, N)).  For a batch of
\* N >= 1 envelopes and no interrupt, when a pool returns or raises every
\* envelope was launched exactly once and has exactly one recorded result.
C15_OneResultPerCall ==
  /\ []((PoolEnded /\ McAtLeastOne) => OneResultPerCall)
  /\ [][LaunchedOnce]_vars

\* C15 witness: the process pool ran two calls one at a time, the first
\* failed and the second returned, and both have their result at the end.
C15_Witness ==
  /\ ProcDone /\ PoolEnded /\ McAtLeastOne
  /\ NumCalls = 2 /\ max_concurrency = <<1>>
  /\ Failed(0) /\ Succeeded(1)
  /\ raised = "CalledProcessException"

\* The batch submitted is the empty list.
EmptyBatch ==
  \/ entry = "RunThreaded" /\ thread_params.is_list /\ thread_params.items = <<>>
  \/ entry \in {"RunParallelThreads", "RunParallelProcesses"} /\ NumCalls = 0

\* No worker was started and no call executed.
NothingLaunched ==
  /\ \A i \in DOMAIN thread_state : thread_state[i] = "unstarted"
  /\ \A i \in DOMAIN proc_state : proc_state[i] = "unstarted"
  /\ queue = <<>>

\* C16: empty batch.  Submitting an empty list to RunThreaded,
\* RunParallelThreads or RunParallelProcesses ends, absent interrupts, by
\* returning an empty list, with no worker launched and no exception, for any
\* max_concurrency (int or None) and any suppress_exceptions.
C16_EmptyBatch ==
  (EmptyBatch /\ pc = "done" /\ interrupts = 0)
    => /\ raised = ""
       /\ returned = ListOf(None, 0)
       /\ NothingLaunched

\* The first element of thread_params is a tuple that is not a (tuple, dict)
\* pair, or thread_params is not a list at all.
TupleShapes == {"badpair", "tuple3", "tuple0"}
MalformedFirst ==
  \/ ~thread_params.is_list
  \/ /\ thread_params.items # <<>>
     /\ thread_params.items[1] \in TupleShapes

\* RunThreaded rejected its input: it has ended with ValueError and no worker
\* was started.
RejectedBeforeLaunch ==
  /\ pc = "done"
  /\ raised = "ValueError"
  /\ NothingLaunched

\* C17: malformed batch rejection before launch.  When thread_params is not
\* a list, or its first element is a tuple that is not a (tuple, dict) pair,
\* RunThreaded raises ValueError at once: no worker was started.
C17_MalformedRejected ==
  (entry = "RunThreaded" /\ MalformedFirst /\ pc # "RunThreaded")
    => RejectedBeforeLaunch

\* C18: normalization validates every element.  When any element of the
\* list, at any position, is a tuple that is not a (tuple, dict) pair,
\* RunThreaded raises ValueError before any worker is launched.
C18_EveryElementValidated ==
  (/\ entry = "RunThreaded" /\ thread_params.is_list
   /\ \E k \in 1..Len(thread_params.items) :
        thread_params.items[k] \in TupleShapes
   /\ pc # "RunThreaded")
    => RejectedBeforeLaunch

\* ---------------------------------------------------------------- C19..C20
RetryEntry == entry = "WrappedFunction"

\* C19: Retry makes at least one attempt and stops on success.  For every
\* poll_interval, fuzz, max_retries and timeout (0 included), the wrapped
\* function does not end before f was called once, and a call of f that
\* returns is the last one: the wrapped function has ended and returned
\* that call's value.
C19_AtLeastOnceStopsOnSuccess ==
  RetryEntry =>
    /\ tries = Len(attempts)
    /\ pc = "done" => tries >= 1
    /\ \A k \in 1..Len(attempts) :
         attempts[k] = "returned"
           => /\ k = Len(attempts)
              /\ pc = "done"
              /\ raised = ""
              /\ returned = FValue(k)

\* C19 witness: with timeout 0 and max_retries 0 the one call of f returned
\* and its value was returned.
C19_Witness ==
  /\ RetryEntry /\ pc = "done"
  /\ timeout = <<0>> /\ max_retries = 0
  /\ attempts = <<"returned">>
  /\ returned = FValue(1)

\* C20: non-retryable failures are not retried.  A call of f that raises an
\* exception outside retryable_exceptions is the last one: that exception
\* leaves the wrapped function at once, without a sleep after it (every
\* earlier call was followed by one sleep, this one by none), whatever
\* retries and time remain.
C20_NonRetryablePropagates ==
  RetryEntry =>
    \A k \in 1..Len(attempts) :
      attempts[k] = "other"
        => /\ k = Len(attempts)
           /\ pc = "done"
           /\ raised = "OtherError"
           /\ sleeps = k - 1

\* C20 witness: retries and time remained (no limit on retries, deadline not
\* reached) when the second call raised a non-retryable exception, which
\* left the wrapped function.
C20_Witness ==
  /\ RetryEntry /\ pc = "done"
  /\ max_retries = 0 - 1
  /\ deadline # None /\ now + poll_interval < deadline[1]
  /\ attempts = <<"retryable", "other">>
  /\ raised = "OtherError"

\* ---------------------------------------------------------------- C21..C22
\* Every call of f so far raised a retryable exception.
AlwaysFails == \A k \in 1..Len(attempts) : attempts[k] = "retryable"

\* The deadline was computed and is float('inf'): the timeout is negative.
NoDeadline == pc # "WrappedFunction" /\ deadline = None

\* C21: retry count limit.  With a negative timeout and an operation that
\* always fails with a retryable exception: when max_retries >= 0 the
\* operation is called max_retries + 1 times, never more, and the wrapped
\* function then ends by raising the exception of the last call; when
\* max_retries is negative as well, the wrapped function never gives up.
C21_RetryCountLimit ==
  (RetryEntry /\ NoDeadline /\ AlwaysFails) =>
    IF max_retries >= 0
      THEN /\ tries <= max_retries + 1
           /\ pc = "done" => /\ tries = max_retries + 1
                             /\ sleeps = max_retries
                             /\ raised = "RetryableError"
                             /\ e = <<tries>>
      ELSE /\ pc # "done"
           /\ raised = ""
           /\ pc = "call" => sleeps = tries

\* C21 witness: max_retries = 2, no deadline, three failing calls with two
\* sleeps between them, and the third failure left the wrapped function.
C21_Witness ==
  /\ RetryEntry /\ pc = "done" /\ NoDeadline
  /\ max_retries = 2
  /\ attempts = <<"retryable", "retryable", "retryable">>
  /\ sleeps = 2
  /\ raised = "RetryableError" /\ e = <<3>>

\* The configuration of the worked example: poll_interval = 1, fuzz = 0, no
\* limit on retries, timeout = 5, an operation that always fails and takes
\* no time (all time that passed was spent in time.sleep).
DeadlineExample ==
  /\ poll_interval = 1 /\ fuzz = 0 /\ max_retries < 0 /\ timeout = <<5>>
  /\ AlwaysFails
  /\ now = sleeps * poll_interval

\* The deadline arithmetic in a state: the deadline is start_time + timeout
\* (the call began at time 0); a retry was made only when now + sleep was
\* still before the deadline; with no limit on retries the wrapped function
\* gave up only when now + sleep reached the deadline; in the example the
\* operation is called 5 times and the fifth failure is raised.
DeadlineArithmetic ==
  /\ (pc # "WrappedFunction" /\ timeout # None /\ timeout[1] >= 0)
       => deadline = <<timeout[1]>>
  /\ (pc = "call" /\ sleeps >= 1 /\ deadline # None) => now < deadline[1]
  /\ (pc = "done" /\ raised = "RetryableError" /\ max_retries < 0)
       => /\ deadline # None
          /\ now + poll_interval >= deadline[1]
          /\ e = <<tries>>
  /\ DeadlineExample
       => /\ tries <= 5
          /\ pc = "done" => /\ tries = 5
                            /\ raised = "RetryableError"
                            /\ e = <<5>>

\* C22: retry deadline arithmetic.  The deadline is fixed once per
\* invocation as start_time + timeout and the wrapped function gives up at
\* the first failure for which now + sleep >= deadline; with poll_interval 1,
\* fuzz 0, no limit on retries and timeout 5, an always-failing operation of
\* negligible duration is called 5 times and its own last failure is raised.
C22_DeadlineArithmetic ==
  /\ [](RetryEntry => DeadlineArithmetic)
  /\ [][pc # "WrappedFunction" => deadline' = deadline]_vars

\* C22 witness: the example ran to its end: five calls, four sleeps of one
\* second, and the fifth failure raised at time 4 with the deadline at 5.
C22_Witness ==
  /\ RetryEntry /\ DeadlineExample /\ pc = "done"
  /\ tries = 5 /\ now = 4 /\ deadline = <<5>>
  /\ raised = "RetryableError" /\ e = <<5>>

\* ---------------------------------------------------------------- C23..C28
\* C23: default concurrency.  When max_concurrency is None,
\* RunParallelProcesses bounds the concurrency by the number of processors
\* (at least 1), so for a non-empty batch the controller never sits in the
\* blocking queue.get with no worker launched, and a run that ends without
\* an interrupt has launched every call.
C23_DefaultConcurrency ==
  (ProcEntry /\ max_concurrency = None /\ NumCalls >= 1 /\ interrupts = 0)
    => /\ pc = "wait" => active_processes # <<>>
       /\ pc = "done" => \A i \in CallIds : ~NeverLaunched(i)

\* The call ids of active_processes in launch order are increasing, so its
\* first key is the earliest-launched worker still active.
EarliestActive ==
  CHOOSE i \in Range(active_processes) :
    \A j \in Range(active_processes) : i <= j

\* After the first interrupt the controller is never blocked in the get:
\* it has an id on the queue or an active worker to fall back on.
SoftWaitNeverBlocks ==
  (pc = "wait" /\ received_interrupt # None)
    => (queue # <<>> \/ active_processes # <<>>)

\* A get that finds the queue empty after an interrupt yields the
\* earliest-launched active worker.
SoftWaitFallsBack ==
  (pc = "wait" /\ received_interrupt # None /\ queue = <<>> /\ pc' = "got_id")
    => call_id' = EarliestActive

\* C24: soft-phase progress.  After the first interrupt the controller never
\* blocks on the queue: on an empty queue it waits on the earliest-launched
\* worker still in active_processes.  So when every worker that is alive
\* eventually exits, the controller eventually finishes, and a run that
\* finishes after one interrupt has emptied active_processes, even if no
\* worker ever put its call_id on the queue.
C24_SoftPhaseProgress ==
  /\ [](SoftWaitNeverBlocks)
  /\ [][SoftWaitFallsBack]_vars
  /\ [](pc = "done" /\ interrupts = 1 => active_processes = <<>>)
  /\ (received_interrupt # None) ~> (pc = "done")

\* C24 witness: one interrupt, two workers launched, neither ever published
\* (both exited without writing a result), and the run finished with
\* active_processes empty.
C24_Witness ==
  /\ ProcDone /\ interrupts = 1 /\ received_interrupt # None
  /\ NumCalls = 2 /\ next_call_id = 2
  /\ proc_state[0] = "exited" /\ proc_state[1] = "exited"
  /\ ~call_results[0].allocated \/ (~Succeeded(0) /\ ~Failed(0))
  /\ ~Succeeded(1) /\ ~Failed(1)
  /\ queue = <<>>
  /\ active_processes = <<>>

\* The slots the controller reads at its next step: that of call_id on the
\* per-call path (lines 510-511), every allocated slot when it gathers the
\* results (lines 543-546).
SlotsAboutToBeRead ==
  IF pc = "read" THEN {call_id}
  ELSE IF pc = "gather"
    THEN {i \in CallIds : call_results[i].allocated}
  ELSE {}

\* C25: read after exit.  In every run of the process pool, hard
\* cancellation included, the controller reads the result slot of a call
\* only when that call's worker is not alive, so never a slot that a live
\* worker may still write.
C25_ReadAfterExit ==
  ProcEntry => \A i \in SlotsAboutToBeRead : ~IsAlive(i)

\* A call_id whose worker is no longer in active_processes is dropped: the
\* step that follows changes neither active_processes nor any slot nor the
\* log.
StaleIdIgnored ==
  (pc = "got_id" /\ ~IsActive(call_id) /\ pc' # pc)
    => UNCHANGED <<active_processes, call_results, logged>>

\* A call enters active_processes only as a worker not started yet, so a
\* call that was removed is never put back and removed again.
RemovedAtMostOnce ==
  \A i \in DOMAIN proc_state :
    (~IsActive(i) /\ Without(active_processes', i) # active_processes')
      => proc_state[i] = "unstarted"

\* C26: stale completions are harmless.  A call_id taken from the queue
\* whose worker is no longer in active_processes is ignored, and over any
\* interleaving of completions and interrupts each launched call is removed
\* from active_processes at most once and its failure is logged by the
\* per-call path (line 512) at most once.
C26_StaleCompletionsHarmless ==
  /\ [](ProcEntry => \A i \in DOMAIN logged : logged[i] <= 1)
  /\ [][StaleIdIgnored /\ RemovedAtMostOnce]_vars

\* The controller sits in the blocking queue.get (line 500) with nothing on
\* the queue and no launched worker left alive to put anything on it: only
\* an interrupt can make it move again.
BlockedForever ==
  /\ pc = "wait" /\ received_interrupt = None
  /\ queue = <<>>
  /\ \A i \in CallIds : ~IsAlive(i)

\* C27: process pool termination without interrupts.  With max_concurrency
\* >= 1 and no interrupt delivered to the controller, when every launched
\* worker eventually exits, whether or not it put its call_id on the queue,
\* RunParallelProcesses eventually returns or raises: it is never blocked
\* forever, and from its call it leads to its end (or to an interrupt).
C27_TerminatesWithoutInterrupt ==
  /\ []((ProcEntry /\ McAtLeastOne /\ interrupts = 0) => ~BlockedForever)
  /\ (ProcEntry /\ pc = "RunParallelProcesses" /\ McAtLeastOne)
       ~> (pc = "done" \/ interrupts >= 1)

\* The launch of call i was cut short by an interrupt: its slot was
\* allocated and next_call_id advanced (lines 463-474) but its process was
\* never started, the interrupt having come before line 477 or line 480.
LaunchInterrupted(i) ==
  /\ ProcEntry /\ interrupts >= 1
  /\ call_results[i].allocated
  /\ proc_state[i] = "unstarted"

\* What holds of such a call in every state: it is not sent a kill, the
\* controller is not joining it, its slot holds neither value nor traceback
\* and no failure of it was logged or recorded, and if a list is returned
\* its entry is None.
InterruptedLaunchLeftAlone(i) ==
  /\ i \notin killed
  /\ ~(pc = "join" /\ call_id = i)
  /\ call_results[i] = NewSlot
  /\ logged[i] = 0
  /\ i \notin Range(error_strings)
  /\ (pc = "done" /\ raised = "") => returned[i] = None

\* The loop of lines 452-526 has ended.
LoopEnded == pc \in {"outer_except", "gather", "done"}

\* C28 as stated: interrupt during launch.  When the first interrupt comes
\* after a call's slot was allocated and before its process was started,
\* the controller neither waits on that call nor kills it, the call never
\* runs, its result is None with no failure recorded, and it is not in
\* active_processes when the loop ends.
C28_NotActiveWhenLoopEnds ==
  /\ [](\A i \in DOMAIN proc_state :
          LaunchInterrupted(i)
            => /\ InterruptedLaunchLeftAlone(i)
               /\ LoopEnded => ~IsActive(i))
  /\ [][\A i \in DOMAIN proc_state :
          LaunchInterrupted(i) => proc_state'[i] = "unstarted"]_vars

\* C28, amended: as above, but the call is out of active_processes when the
\* loop runs to its end after that one interrupt; a second interrupt may
\* end the loop with the never-started call still registered (it is then
\* skipped by the kill loop).
C28_InterruptDuringLaunch ==
  /\ [](\A i \in DOMAIN proc_state :
          LaunchInterrupted(i)
            => /\ InterruptedLaunchLeftAlone(i)
               /\ (LoopEnded /\ interrupts = 1) => ~IsActive(i))
  /\ [][\A i \in DOMAIN proc_state :
          LaunchInterrupted(i) => proc_state'[i] = "unstarted"]_vars

\* C28 witness: the first interrupt came after call 0 was registered and
\* before it was started; the controller, finding the queue empty, took it
\* as the first active key and is about to pop it without having joined it.
C28_Witness ==
  /\ ProcEntry /\ 0 \in DOMAIN proc_state
  /\ LaunchInterrupted(0) /\ interrupts = 1
  /\ pc = "pop" /\ call_id = 0 /\ IsActive(0)
  /\ queue = <<>>

====
